---- MODULE Spec2Model ----
(***************************************************************************)
(* RaktSetu backend: the hospital-staff router (blood inventory ledger and *)
(* donor eligibility) over the BloodInventory model.                       *)
(*                                                                         *)
(* Every request handler is an async function; each `await` on a database  *)
(* call is a point where another request may run.  A handler is therefore  *)
(* one action per database round trip, the code between two awaits being   *)
(* part of the action that precedes it.                                    *)
(***************************************************************************)
EXTENDS Integers, Sequences, FiniteSets, TLC

(* ------------------------------ bounds --------------------------------- *)
\* largest units_available a record may reach (guards of add / update)
MaxUnits == 3
\* largest numeric `units` value a request body carries
MaxDelta == 2
\* last value of the wall clock
MaxTime == 1
\* how many consecutive days donation dates span
MaxDonationDays == 153
\* how many consecutive days request dates span
MaxHorizonDays == 160
\* how many notifications the collection may hold (guards of create)
MaxNotifs == 2
\* how many blood requests the collection may hold (guard of create)
MaxRequests == 3

(* ------------------------------ constants ------------------------------ *)
\* enum of blood_group, and the seeding order of GET /inventory
bloodGroups == <<"A+", "A-", "B+", "B-", "AB+", "AB-", "O+", "O-">>
\* result of sort({ blood_group: 1 }): plain string order, '+' < '-' < 'B'
sortedGroups == <<"A+", "A-", "AB+", "AB-", "B+", "B-", "O+", "O-">>
BloodGroupSet == {bloodGroups[i] : i \in 1..Len(bloodGroups)}
\* schema default of min_threshold
DefaultMinThreshold == 2
\* schema `min` of units_available
MinUnits == 0

Hospitals == {"h1", "h2"}
\* the hospital account whose staff work concurrently
SharedAccount == {"h1"}
Procs == {"p1", "p2"}
SeqProcs == {"p1"}
Keys == Hospitals \X BloodGroupSet

\* the blood_group values request bodies carry; "" is a missing blood_group
BodyGroups == {"A+", ""}

\* request body `units`: a number, a non-numeric string, or absent
RawUnits == {[kind |-> "num", val |-> n] : n \in -1..MaxDelta}
            \cup {[kind |-> "text", val |-> 0], [kind |-> "undefined", val |-> 0]}

\* request body `units` that is numeric only in part: v + 1/2 ("frac"),
\* -1/2 ("negfrac"), the digits of v followed by letters ("prefix")
LooseUnits == {[kind |-> "frac", val |-> v] : v \in 0..1}
              \cup {[kind |-> "negfrac", val |-> 0], [kind |-> "prefix", val |-> 1]}
BodyUnits == RawUnits \cup LooseUnits

Ops == {"get", "add", "update", "reduce"}

(* ------------------------------ documents ------------------------------ *)
\* no document stored for the pair
NoDoc == [present |-> FALSE, units_available |-> 0, min_threshold |-> 0, last_updated |-> 0]

\* a BloodInventory document built by new/create: schema defaults applied
NewDoc(units, stamp) ==
    [present |-> TRUE, units_available |-> units,
     min_threshold |-> DefaultMinThreshold, last_updated |-> stamp]

\* schema validator of units_available (min: 0), run by save/create/runValidators
ValidUnits(u) == u >= MinUnits

\* parseInt(units): the argument is turned into a string, of which the
\* longest prefix that is an integer numeral is read: 1.5 gives 1, -0.5 gives
\* -0 (which compares as 0), "1abc" gives 1. NaN is the record [nan |-> TRUE]
parseInt(raw) ==
    CASE raw.kind = "num" -> [nan |-> FALSE, val |-> raw.val]
      [] raw.kind = "frac" -> [nan |-> FALSE, val |-> raw.val]
      [] raw.kind = "negfrac" -> [nan |-> FALSE, val |-> 0]
      [] raw.kind = "prefix" -> [nan |-> FALSE, val |-> raw.val]
      [] OTHER -> [nan |-> TRUE, val |-> 0]

isLowStock_strict(doc) == doc.units_available < doc.min_threshold

\* bloodInventorySchema.methods.isLowStock
isLowStock(doc) == doc.units_available <= doc.min_threshold

\* one entry of formattedInventory
FormatItem(bg, doc) ==
    [blood_group |-> bg, units_available |-> doc.units_available,
     last_updated |-> doc.last_updated, is_low_stock |-> isLowStock(doc),
     min_threshold |-> doc.min_threshold]

VARIABLES
    inv,      \* the bloodinventories collection: Keys -> document or NoDoc
    now,      \* wall clock read by new Date() / Date.now
    pc,       \* where each request handler stands
    req,      \* the request a handler serves
    loc,      \* the handler's local document and loop index
    resp,     \* the response the handler sent
    prev,     \* per client, the request/response pair completed before
    base,     \* the collection as it was when the requests were issued
    lastDonation,  \* a donor's profile.lastDonation, or NoDate
    today,    \* the date new Date() yields in the reminder routes
    verdict,  \* what the reminder routes computed for the donor
    users,    \* the users collection: id -> role and profile.lastDonation
    notifs,   \* the notifications collection, in order of creation
    hospitals,   \* the hospitals collection, in order of insertion
    searchTerm,  \* the argument of searchByLocation
    searchResult, \* what searchByLocation returned
    requests,    \* the bloodrequests collection, in order of creation
    call,        \* the last call of the requests or admin routes, with its response
    authState,   \* AuthProvider's React state: user, token, loading
    localStorage,\* the value stored under bloodbank_token, or null
    initAuth,    \* the mount-time token check: its position and its storedToken
    login        \* the login call in flight: its position and its response

eligVars == <<lastDonation, today, verdict>>
remVars == <<users, notifs>>
\* the state outside the hospital router: the hospitals collection and a search of it
searchVars == <<hospitals, searchTerm, searchResult>>
\* the blood requests and the calls of the requests and admin routers
apiVars == <<requests, call>>
\* the frontend session
authVars == <<authState, localStorage, initAuth, login>>
auxVars == <<searchVars, apiVars, authVars>>
vars == <<inv, now, pc, req, loc, resp, prev, base, lastDonation, today, verdict, users, notifs,
          hospitals, searchTerm, searchResult, requests, call,
          authState, localStorage, initAuth, login>>

NoReq == [op |-> "none", hospital |-> "h1", blood_group |-> "", units |-> [kind |-> "undefined", val |-> 0],
          donor_id |-> ""]
\* locals of a handler: the inventory document read and the one to write, the
\* loop index, and for POST /reminders/send the donors found, sentCount,
\* skippedCount, results; `skipped` and `start` record, for the properties,
\* whom the call skipped and how many notifications existed when it began
NoLoc == [found |-> NoDoc, doc |-> NoDoc, i |-> 0,
          donors |-> <<>>, sentCount |-> 0, skippedCount |-> 0, results |-> <<>>,
          skipped |-> <<>>, start |-> 0, eligibleDonors |-> <<>>]
NoResp == [status |-> 0, message |-> "", inventory |-> <<>>, doc |-> NoDoc, is_low_stock |-> FALSE,
           sent_count |-> 0, skipped_count |-> 0, results |-> <<>>,
           donors |-> <<>>, pending_reminders |-> 0]
NoPrev == [req |-> NoReq, status |-> 0, found_units |-> 0]

\* bloodInventorySchema.statics.getHospitalInventory: find + sort by blood_group
RECURSIVE SelectSorted(_, _, _)
SelectSorted(store, h, i) ==
    IF i > Len(sortedGroups) THEN <<>>
    ELSE LET bg == sortedGroups[i]
             rest == SelectSorted(store, h, i + 1)
         IN IF store[<<h, bg>>].present
            THEN <<FormatItem(bg, store[<<h, bg>>])>> \o rest
            ELSE rest

getHospitalInventory(store, h) == SelectSorted(store, h, 1)

Reply(status, message) == [NoResp EXCEPT !.status = status, !.message = message]

(* ------------------------------ initial state -------------------------- *)
NoDate == -1
NoVerdict == [evaluated |-> FALSE, isEligible |-> FALSE, eligible_from |-> NoDate]
NoStore == [k \in Keys |-> NoDoc]

\* no request in flight, clock at 0
Quiet ==
    /\ now = 0
    /\ pc = [p \in Procs |-> "idle"]
    /\ req = [p \in Procs |-> NoReq]
    /\ loc = [p \in Procs |-> NoLoc]
    /\ resp = [p \in Procs |-> NoResp]
    /\ prev = [p \in Procs |-> NoPrev]

\* the users collection: one admin, two hospitals, two donors, one seeker
UserOrder == <<"a1", "h1", "h2", "d1", "d2", "s1">>
UserIds == {UserOrder[i] : i \in 1..Len(UserOrder)}
RoleOf(id) ==
    CASE id = "a1" -> "admin"
      [] id \in {"h1", "h2"} -> "hospital"
      [] id \in {"d1", "d2"} -> "donor"
      [] OTHER -> "seeker"
NoUsers == [id \in UserIds |-> [role |-> RoleOf(id), lastDonation |-> NoDate]]

\* no hospital stored, nothing searched
NoFound == [done |-> FALSE, error |-> FALSE, hospitals |-> <<>>]
NoSearch == hospitals = <<>> /\ searchTerm = <<>> /\ searchResult = NoFound
\* the users of a role, newest first (.sort({ createdAt: -1 }))
RECURSIVE FindByRole(_, _, _)
FindByRole(us, role, i) ==
    IF i < 1 THEN <<>>
    ELSE IF us[UserOrder[i]].role = role
         THEN <<UserOrder[i]>> \o FindByRole(us, role, i - 1)
         ELSE FindByRole(us, role, i - 1)

NoCall == [route |-> "none", caller |-> "", token |-> "", status |-> 0,
           requests |-> <<>>,
           data |-> [donors |-> <<>>, hospitals |-> <<>>, seekers |-> <<>>]]
\* null, for a user, a token or a stored item
null == "null"
\* no blood request, no call yet, and the provider before it is mounted
NoCalls ==
    /\ requests = <<>>
    /\ call = NoCall
    /\ authState = [user |-> null, token |-> null, loading |-> TRUE]
    /\ initAuth = [pc |-> "unmounted", storedToken |-> null]
    /\ login = [pc |-> "idle", ok |-> FALSE]
    /\ localStorage = null
NoAux == NoSearch /\ NoCalls

NoDonor ==
    /\ lastDonation = NoDate
    /\ today = 0
    /\ verdict = NoVerdict
    /\ users = NoUsers
    /\ notifs = <<>>
    /\ NoAux

Init ==
    /\ inv = NoStore
    /\ base = NoStore
    /\ Quiet
    /\ NoDonor

\* the clock advances between any two steps
Tick ==
    /\ now < MaxTime
    /\ now' = now + 1
    /\ UNCHANGED <<inv, pc, req, loc, resp, prev, base, eligVars, remVars, auxVars>>

(* ------------------------------ request entry -------------------------- *)
\* the synchronous prefix of a handler: body validation up to the first await
\* (400 replies of POST /inventory/add, /update, /reduce)
Validate(r) ==
    LET n == parseInt(r.units) IN
    IF r.op = "get" THEN Reply(0, "")
    ELSE IF r.blood_group = "" \/ r.units.kind = "undefined"
         THEN Reply(400, "Blood group and units are required")
    ELSE IF r.op = "update"
         THEN IF n.nan \/ n.val < 0 THEN Reply(400, "Units cannot be negative")
              ELSE Reply(0, "")
    ELSE IF n.nan \/ n.val <= 0 THEN Reply(400, "Units must be a positive number")
         ELSE Reply(0, "")

FirstAwait(op) ==
    CASE op = "get" -> "get_find"
      [] op = "add" -> "add_find"
      [] op = "update" -> "upd_upsert"
      [] op = "reduce" -> "red_find"

ReceiveFrom(p, accounts, ops, groups, raws) ==
    /\ pc[p] = "idle"
    /\ \E op \in ops, h \in accounts, bg \in groups, u \in raws :
         LET r == [op |-> op, hospital |-> h,
                   blood_group |-> IF op = "get" THEN "" ELSE bg,
                   units |-> IF op = "get" THEN NoReq.units ELSE u,
                   donor_id |-> ""]
             v == Validate(r)
         IN /\ req' = [req EXCEPT ![p] = r]
            /\ resp' = [resp EXCEPT ![p] = v]
            /\ pc' = [pc EXCEPT ![p] = IF v.status = 0 THEN FirstAwait(op) ELSE "done"]
            \* POST /inventory/update builds its update object, new Date()
            \* included, before the call is awaited
            /\ loc' = [loc EXCEPT ![p] =
                    IF op = "update" /\ v.status = 0
                    THEN [NoLoc EXCEPT !.doc = NewDoc(parseInt(u).val, now)]
                    ELSE NoLoc]
    /\ UNCHANGED <<inv, now, prev, base, eligVars, remVars, auxVars>>

\* a request whose units is a number, a non-numeric string, or absent
Receive(p, accounts, ops, groups) == ReceiveFrom(p, accounts, ops, groups, RawUnits)

\* the client has the response and may issue its next request
Return(p) ==
    /\ pc[p] = "done"
    /\ pc' = [pc EXCEPT ![p] = "idle"]
    /\ req' = [req EXCEPT ![p] = NoReq]
    /\ loc' = [loc EXCEPT ![p] = NoLoc]
    /\ resp' = [resp EXCEPT ![p] = NoResp]
    /\ UNCHANGED <<inv, now, prev, base, eligVars, remVars, auxVars>>

\* the client keeps what it sent and received, then may issue its next request
ReturnSeq(p) ==
    /\ pc[p] = "done"
    /\ prev' = [prev EXCEPT ![p] = [req |-> req[p], status |-> resp[p].status,
                                    found_units |-> loc[p].found.units_available]]
    /\ pc' = [pc EXCEPT ![p] = "idle"]
    /\ req' = [req EXCEPT ![p] = NoReq]
    /\ loc' = [loc EXCEPT ![p] = NoLoc]
    /\ resp' = [resp EXCEPT ![p] = NoResp]
    /\ UNCHANGED <<inv, now, base, eligVars, remVars, auxVars>>

KeyOf(p) == <<req[p].hospital, req[p].blood_group>>
UnitsOf(p) == parseInt(req[p].units).val

Finish(p, r) ==
    /\ resp' = [resp EXCEPT ![p] = r]
    /\ pc' = [pc EXCEPT ![p] = "done"]

(* ------------------------------ GET /inventory ------------------------- *)
GetFind_skip(p) ==
    /\ pc[p] = "get_find"
    /\ LET inventory == getHospitalInventory(inv, req[p].hospital) IN
       IF Len(inventory) = 0
       THEN /\ loc' = [loc EXCEPT ![p].i = 2, ![p].doc = NewDoc(0, now)]
            /\ pc' = [pc EXCEPT ![p] = "get_create"]
            /\ UNCHANGED resp
       ELSE /\ Finish(p, [Reply(200, "") EXCEPT !.inventory = inventory])
            /\ UNCHANGED loc
    /\ UNCHANGED <<inv, now, req, prev, base, eligVars, remVars, auxVars>>

\* let inventory = await getHospitalInventory(hospitalId); length === 0 ?
GetFind(p) ==
    /\ pc[p] = "get_find"
    /\ LET inventory == getHospitalInventory(inv, req[p].hospital) IN
       IF Len(inventory) = 0
       THEN /\ loc' = [loc EXCEPT ![p].i = 1, ![p].doc = NewDoc(0, now)]
            /\ pc' = [pc EXCEPT ![p] = "get_create"]
            /\ UNCHANGED resp
       ELSE /\ Finish(p, [Reply(200, "") EXCEPT !.inventory = inventory])
            /\ UNCHANGED loc
    /\ UNCHANGED <<inv, now, req, prev, base, eligVars, remVars, auxVars>>

\* for (const bg of bloodGroups) await BloodInventory.create({... units_available: 0})
\* the unique index (hospital_id, blood_group) rejects a second document
GetCreate(p) ==
    /\ pc[p] = "get_create"
    /\ LET k == <<req[p].hospital, bloodGroups[loc[p].i]>> IN
       IF inv[k].present
       THEN /\ Finish(p, Reply(500, "Server error fetching inventory"))
            /\ UNCHANGED <<inv, loc>>
       ELSE /\ inv' = [inv EXCEPT ![k] = loc[p].doc]
            /\ IF loc[p].i < Len(bloodGroups)
               THEN /\ loc' = [loc EXCEPT ![p].i = loc[p].i + 1, ![p].doc = NewDoc(0, now)]
                    /\ UNCHANGED pc
               ELSE /\ pc' = [pc EXCEPT ![p] = "get_refind"]
                    /\ UNCHANGED loc
            /\ UNCHANGED resp
    /\ UNCHANGED <<now, req, prev, base, eligVars, remVars, auxVars>>

\* inventory = await getHospitalInventory(hospitalId); res.json(formattedInventory)
GetRefind(p) ==
    /\ pc[p] = "get_refind"
    /\ Finish(p, [Reply(200, "") EXCEPT !.inventory = getHospitalInventory(inv, req[p].hospital)])
    /\ UNCHANGED <<inv, now, req, loc, prev, base, eligVars, remVars, auxVars>>

(* ------------------------------ POST /inventory/add -------------------- *)
AddFind_set(p) ==
    /\ pc[p] = "add_find"
    /\ LET found == inv[KeyOf(p)] IN
       /\ found.units_available + UnitsOf(p) <= MaxUnits
       /\ IF found.present
          THEN /\ loc' = [loc EXCEPT ![p].found = found,
                              ![p].doc = [found EXCEPT
                                  !.units_available = UnitsOf(p),
                                  !.last_updated = now]]
               /\ pc' = [pc EXCEPT ![p] = "add_save"]
          ELSE /\ loc' = [loc EXCEPT ![p].found = found,
                              ![p].doc = NewDoc(UnitsOf(p), now)]
               /\ pc' = [pc EXCEPT ![p] = "add_create"]
    /\ UNCHANGED <<inv, now, req, resp, prev, base, eligVars, remVars, auxVars>>

\* addUnits: const inventory = await this.findOne(...); then the document is
\* changed in memory and save() / create() is issued
AddFind(p) ==
    /\ pc[p] = "add_find"
    /\ LET found == inv[KeyOf(p)] IN
       /\ found.units_available + UnitsOf(p) <= MaxUnits
       /\ IF found.present
          THEN /\ loc' = [loc EXCEPT ![p].found = found,
                              ![p].doc = [found EXCEPT
                                  !.units_available = found.units_available + UnitsOf(p),
                                  !.last_updated = now]]
               /\ pc' = [pc EXCEPT ![p] = "add_save"]
          ELSE /\ loc' = [loc EXCEPT ![p].found = found,
                              ![p].doc = NewDoc(UnitsOf(p), now)]
               /\ pc' = [pc EXCEPT ![p] = "add_create"]
    /\ UNCHANGED <<inv, now, req, resp, prev, base, eligVars, remVars, auxVars>>

Save_stampAll(store, k, doc) ==
    [j \in Keys |->
        IF j = k THEN [store[j] EXCEPT !.units_available = doc.units_available,
                                       !.last_updated = doc.last_updated]
        ELSE IF j[1] = k[1] /\ store[j].present
             THEN [store[j] EXCEPT !.last_updated = doc.last_updated + 1]
             ELSE store[j]]

\* document.save(): validates, then $set of the modified paths on the stored document
Save(store, k, doc) ==
    [store EXCEPT ![k].units_available = doc.units_available,
                  ![k].last_updated = doc.last_updated]

\* data of the add / update replies
DocReply(doc) == [Reply(200, "") EXCEPT !.doc = doc]
\* data of the reduce reply: is_low_stock: inventory.isLowStock()
ReduceReply(doc) == [Reply(200, "") EXCEPT !.doc = doc, !.is_low_stock = isLowStock(doc)]

AddSave(p) ==
    /\ pc[p] = "add_save"
    /\ IF ValidUnits(loc[p].doc.units_available)
       THEN /\ inv' = Save(inv, KeyOf(p), loc[p].doc)
            /\ Finish(p, DocReply(loc[p].doc))
       ELSE /\ Finish(p, Reply(500, "Units cannot be negative"))
            /\ UNCHANGED inv
    /\ UNCHANGED <<now, req, loc, prev, base, eligVars, remVars, auxVars>>

\* this.create({...}): validates, then inserts; the unique index may reject it
AddCreate(p) ==
    /\ pc[p] = "add_create"
    /\ IF ~ValidUnits(loc[p].doc.units_available)
       THEN /\ Finish(p, Reply(500, "Units cannot be negative"))
            /\ UNCHANGED inv
       ELSE IF inv[KeyOf(p)].present
       THEN /\ Finish(p, Reply(500, "E11000 duplicate key error"))
            /\ UNCHANGED inv
       ELSE /\ inv' = [inv EXCEPT ![KeyOf(p)] = loc[p].doc]
            /\ Finish(p, DocReply(loc[p].doc))
    /\ UNCHANGED <<now, req, loc, prev, base, eligVars, remVars, auxVars>>

(* ------------------------------ POST /inventory/update ----------------- *)
upsertInventory_inc(store, k, upd) ==
    IF store[k].present
    THEN [store EXCEPT ![k].units_available = @ + upd.units_available,
                       ![k].last_updated = upd.last_updated]
    ELSE [store EXCEPT ![k] = upd]

\* upsertInventory: one findOneAndUpdate with { upsert, new, runValidators }
upsertInventory(store, k, upd) ==
    IF store[k].present
    THEN [store EXCEPT ![k].units_available = upd.units_available,
                       ![k].last_updated = upd.last_updated]
    ELSE [store EXCEPT ![k] = upd]

UpdUpsert(p) ==
    /\ pc[p] = "upd_upsert"
    /\ IF ValidUnits(loc[p].doc.units_available)
       THEN /\ inv' = upsertInventory(inv, KeyOf(p), loc[p].doc)
            /\ Finish(p, DocReply(inv'[KeyOf(p)]))
       ELSE /\ Finish(p, Reply(500, "Units cannot be negative"))
            /\ UNCHANGED inv
    /\ UNCHANGED <<now, req, loc, prev, base, eligVars, remVars, auxVars>>

(* ------------------------------ POST /inventory/reduce ----------------- *)
InsufficientStock_never(doc, unitsToReduce) == FALSE
InsufficientStock_strict(doc, unitsToReduce) == doc.units_available <= unitsToReduce

\* reduceUnits: inventory.units_available < unitsToReduce
InsufficientStock(doc, unitsToReduce) == doc.units_available < unitsToReduce

RedFind_create(p) ==
    /\ pc[p] = "red_find"
    /\ LET found == inv[KeyOf(p)] IN
       IF ~found.present
       THEN /\ Finish(p, Reply(400, "No inventory found"))
            /\ loc' = [loc EXCEPT ![p].found = found]
            /\ inv' = [inv EXCEPT ![KeyOf(p)] = NewDoc(0, now)]
       ELSE IF InsufficientStock(found, UnitsOf(p))
       THEN /\ Finish(p, Reply(400, "Insufficient stock"))
            /\ loc' = [loc EXCEPT ![p].found = found]
            /\ UNCHANGED inv
       ELSE /\ loc' = [loc EXCEPT ![p].found = found,
                           ![p].doc = [found EXCEPT
                               !.units_available = found.units_available - UnitsOf(p),
                               !.last_updated = now]]
            /\ pc' = [pc EXCEPT ![p] = "red_save"]
            /\ UNCHANGED <<resp, inv>>
    /\ UNCHANGED <<now, req, prev, base, eligVars, remVars, auxVars>>

\* reduceUnits up to save(): findOne, the two throws (caught as 400), the
\* in-memory decrement
RedFind(p) ==
    /\ pc[p] = "red_find"
    /\ LET found == inv[KeyOf(p)] IN
       IF ~found.present
       THEN /\ Finish(p, Reply(400, "No inventory found"))
            /\ loc' = [loc EXCEPT ![p].found = found]
       ELSE IF InsufficientStock(found, UnitsOf(p))
       THEN /\ Finish(p, Reply(400, "Insufficient stock"))
            /\ loc' = [loc EXCEPT ![p].found = found]
       ELSE /\ loc' = [loc EXCEPT ![p].found = found,
                           ![p].doc = [found EXCEPT
                               !.units_available = found.units_available - UnitsOf(p),
                               !.last_updated = now]]
            /\ pc' = [pc EXCEPT ![p] = "red_save"]
            /\ UNCHANGED resp
    /\ UNCHANGED <<inv, now, req, prev, base, eligVars, remVars, auxVars>>

RedSave_inc(p) ==
    /\ pc[p] = "red_save"
    /\ inv' = [inv EXCEPT ![KeyOf(p)].units_available = @ - UnitsOf(p),
                          ![KeyOf(p)].last_updated = loc[p].doc.last_updated]
    /\ Finish(p, ReduceReply(inv'[KeyOf(p)]))
    /\ UNCHANGED <<now, req, loc, prev, base, eligVars, remVars, auxVars>>

\* inventory.save() of reduceUnits, then the reply of POST /inventory/reduce
RedSave(p) ==
    /\ pc[p] = "red_save"
    /\ IF ValidUnits(loc[p].doc.units_available)
       THEN /\ inv' = Save(inv, KeyOf(p), loc[p].doc)
            /\ Finish(p, ReduceReply(loc[p].doc))
       ELSE /\ Finish(p, Reply(400, "Units cannot be negative"))
            /\ UNCHANGED inv
    /\ UNCHANGED <<now, req, loc, prev, base, eligVars, remVars, auxVars>>

(* ------------------------------ dates ---------------------------------- *)
\* A Date is its time value, counted in days from 1 January of the first
\* year of Years; month numbers are those of getMonth (0 = January).
Years == 2023..2025
EpochYear == CHOOSE y \in Years : \A z \in Years : y <= z
\* months added by isDonorEligible / getEligibleDate
EligibilityMonths == 3

IsLeapYear(y) == (y % 4 = 0 /\ y % 100 # 0) \/ y % 400 = 0
DaysInYear(y) == IF IsLeapYear(y) THEN 366 ELSE 365
DaysInMonth(y, m) ==
    IF m = 1 THEN (IF IsLeapYear(y) THEN 29 ELSE 28)
    ELSE IF m \in {3, 5, 8, 10} THEN 30 ELSE 31

RECURSIVE DaysBeforeYear(_)
DaysBeforeYear(y) == IF y <= EpochYear THEN 0 ELSE DaysBeforeYear(y - 1) + DaysInYear(y - 1)

RECURSIVE DaysBeforeMonth(_, _)
DaysBeforeMonth(y, m) == IF m = 0 THEN 0 ELSE DaysBeforeMonth(y, m - 1) + DaysInMonth(y, m - 1)

\* ECMAScript MakeDay(year, month, date): the month carries into the year, the
\* date is counted on from the first of the month, whatever the month's length
MakeDay(y, m, d) ==
    LET ym == y + (m \div 12)
        mn == m % 12
    IN DaysBeforeYear(ym) + DaysBeforeMonth(ym, mn) + d - 1

getFullYear(t) == CHOOSE y \in Years : DaysBeforeYear(y) <= t /\ t < DaysBeforeYear(y + 1)
getMonth(t) ==
    LET y == getFullYear(t)
        r == t - DaysBeforeYear(y)
    IN CHOOSE m \in 0..11 : DaysBeforeMonth(y, m) <= r /\ r < DaysBeforeMonth(y, m) + DaysInMonth(y, m)
getDate(t) == t - MakeDay(getFullYear(t), getMonth(t), 1) + 1

\* Date.prototype.setMonth(month): year and day of month are kept
setMonth(t, month) == MakeDay(getFullYear(t), month, getDate(t))

\* isDonorEligible, `current` being new Date()
isDonorEligible(lastDonationDate, current) ==
    IF lastDonationDate = NoDate THEN TRUE
    ELSE LET threeMonthsLater == setMonth(lastDonationDate, getMonth(lastDonationDate) + EligibilityMonths)
         IN current >= threeMonthsLater

\* getEligibleDate, `current` being new Date()
getEligibleDate(lastDonationDate, current) ==
    IF lastDonationDate = NoDate THEN current
    ELSE setMonth(lastDonationDate, getMonth(lastDonationDate) + EligibilityMonths)

\* the calendar date year-month-day, month counted from 1
Day(y, month, d) == MakeDay(y, month - 1, d)

\* donation dates: MaxDonationDays days from 1 October 2023
DonationDates == Day(2023, 10, 1) .. (Day(2023, 10, 1) + MaxDonationDays - 1)
\* dates of the request: MaxHorizonDays days from 1 January 2024
RequestDates == Day(2024, 1, 1) .. (Day(2024, 1, 1) + MaxHorizonDays - 1)

InitElig ==
    /\ inv = NoStore
    /\ base = NoStore
    /\ Quiet
    /\ lastDonation \in DonationDates \cup {NoDate}
    /\ today = Day(2024, 1, 1)
    /\ verdict = NoVerdict
    /\ users = NoUsers
    /\ notifs = <<>>
    /\ NoAux

\* GET /reminders for one donor: isEligible and eligible_from
Evaluate ==
    /\ ~verdict.evaluated
    /\ verdict' = [evaluated |-> TRUE,
                   isEligible |-> isDonorEligible(lastDonation, today),
                   eligible_from |-> getEligibleDate(lastDonation, today)]
    /\ UNCHANGED <<inv, now, pc, req, loc, resp, prev, base, lastDonation, today, remVars, auxVars>>

\* the request is made a day later
NextDay ==
    /\ today + 1 \in RequestDates
    /\ today' = today + 1
    /\ verdict' = NoVerdict
    /\ UNCHANGED <<inv, now, pc, req, loc, resp, prev, base, lastDonation, remVars, auxVars>>

(* ------------------------------ donor reminders ------------------------ *)
\* wasReminderSentRecently(donorId, hospitalId, 30): the daysAgo argument
ReminderCooldownDays == 30

\* Date.prototype.setDate(date): year and month are kept
setDate(t, date) == MakeDay(getFullYear(t), getMonth(t), date)

NewNotification_default(donorId, hospitalId, message, sentAt) ==
    [donor_id |-> donorId, hospital_id |-> hospitalId, type |-> "donation_reminder",
     message |-> message, delivery_method |-> "console", status |-> "pending",
     sent_at |-> NoDate, is_read |-> FALSE]

\* a Notification document as both reminder routes create it
NewNotification(donorId, hospitalId, message, sentAt) ==
    [donor_id |-> donorId, hospital_id |-> hospitalId, type |-> "donation_reminder",
     message |-> message, delivery_method |-> "console", status |-> "sent",
     sent_at |-> sentAt, is_read |-> FALSE]

wasReminderSentRecently_anyHospital(store, donorId, hospitalId, daysAgo, current) ==
    LET cutoffDate == setDate(current, getDate(current) - daysAgo) IN
    \E n \in 1..Len(store) :
        /\ store[n].donor_id = donorId
        /\ store[n].type = "donation_reminder"
        /\ store[n].sent_at >= cutoffDate

wasReminderSentRecently_ever(store, donorId, hospitalId, daysAgo, current) ==
    \E n \in 1..Len(store) :
        /\ store[n].donor_id = donorId
        /\ store[n].hospital_id = hospitalId
        /\ store[n].type = "donation_reminder"

wasReminderSentRecently_week(store, donorId, hospitalId, daysAgo, current) ==
    LET cutoffDate == setDate(current, getDate(current) - 7) IN
    \E n \in 1..Len(store) :
        /\ store[n].donor_id = donorId
        /\ store[n].hospital_id = hospitalId
        /\ store[n].type = "donation_reminder"
        /\ store[n].sent_at >= cutoffDate

\* notificationSchema.statics.wasReminderSentRecently, `current` being new Date()
wasReminderSentRecently(store, donorId, hospitalId, daysAgo, current) ==
    LET cutoffDate == setDate(current, getDate(current) - daysAgo) IN
    \E n \in 1..Len(store) :
        /\ store[n].donor_id = donorId
        /\ store[n].hospital_id = hospitalId
        /\ store[n].type = "donation_reminder"
        /\ store[n].sent_at >= cutoffDate

\* User.find({ role: 'donor' }), in the order of the collection
RECURSIVE FindDonors(_, _)
FindDonors(us, i) ==
    IF i > Len(UserOrder) THEN <<>>
    ELSE IF us[UserOrder[i]].role = "donor"
         THEN <<UserOrder[i]>> \o FindDonors(us, i + 1)
         ELSE FindDonors(us, i + 1)

\* the loop of POST /reminders/send up to its next await: donors that are not
\* eligible are passed over (continue); the result is the index of the next
\* donor to check, or Len(donors) + 1 when the loop has ended
RECURSIVE NextToCheck(_, _, _, _)
NextToCheck(donors, i, us, current) ==
    IF i > Len(donors) THEN i
    ELSE IF isDonorEligible(us[donors[i]].lastDonation, current) THEN i
         ELSE NextToCheck(donors, i + 1, us, current)

\* res.json of POST /reminders/send
SendReply(l) ==
    [Reply(200, "") EXCEPT !.sent_count = l.sentCount,
                           !.skipped_count = l.skippedCount,
                           !.results = l.results]

\* the loop goes on from locals l: to the next await, or to the reply
Continue(p, l) ==
    LET j == NextToCheck(l.donors, l.i + 1, users, today)
        m == [l EXCEPT !.i = j]
    IN /\ loc' = [loc EXCEPT ![p] = m]
       /\ IF j > Len(l.donors)
          THEN Finish(p, SendReply(m))
          ELSE /\ pc' = [pc EXCEPT ![p] = "send_check"]
               /\ UNCHANGED resp

\* the ids a request body may carry as donor_id: the donors, a user who is
\* not a donor, a well-formed id of no user, a string that is not an id, and
\* "" for a missing donor_id
BodyDonorIds == {"d1", "d2", "s1", "zz", "not-an-id", ""}
\* strings that cannot be cast to an ObjectId (not 24 hex digits)
MalformedIds == {"not-an-id"}
ReminderOps == {"send", "single"}

\* entry of POST /reminders/send and POST /reminders/send-single
ReceiveReminder(p, accounts, ops) ==
    /\ pc[p] = "idle"
    /\ \E op \in ops, h \in accounts, d \in BodyDonorIds :
         LET r == [NoReq EXCEPT !.op = op, !.hospital = h,
                                !.donor_id = IF op = "single" THEN d ELSE ""]
         IN /\ req' = [req EXCEPT ![p] = r]
            /\ loc' = [loc EXCEPT ![p] = NoLoc]
            /\ IF op = "single" /\ d = ""
               THEN Finish(p, Reply(400, "Donor ID is required"))
               ELSE /\ pc' = [pc EXCEPT ![p] = CASE op = "send" -> "send_find"
                                                  [] op = "single" -> "single_find"
                                                  [] op = "list" -> "list_find"]
                    /\ resp' = [resp EXCEPT ![p] = NoResp]
    /\ UNCHANGED <<inv, now, prev, base, eligVars, remVars, auxVars>>

\* POST /reminders/send: const donors = await User.find({ role: 'donor' })
SendFind(p) ==
    /\ pc[p] = "send_find"
    /\ Continue(p, [loc[p] EXCEPT !.donors = FindDonors(users, 1), !.i = 0,
                                  !.start = Len(notifs)])
    /\ UNCHANGED <<inv, now, req, prev, base, eligVars, remVars, auxVars>>

SendCheck_nocount(p) ==
    /\ pc[p] = "send_check"
    /\ LET donor == loc[p].donors[loc[p].i] IN
       IF wasReminderSentRecently(notifs, donor, req[p].hospital, ReminderCooldownDays, today)
       THEN Continue(p, [loc[p] EXCEPT !.skipped = Append(@, donor)])
       ELSE /\ pc' = [pc EXCEPT ![p] = "send_create"]
            /\ UNCHANGED <<loc, resp>>
    /\ UNCHANGED <<inv, now, req, prev, base, eligVars, remVars, auxVars>>

\* POST /reminders/send: recentlyReminded = await wasReminderSentRecently(...)
SendCheck(p) ==
    /\ pc[p] = "send_check"
    /\ LET donor == loc[p].donors[loc[p].i] IN
       IF wasReminderSentRecently(notifs, donor, req[p].hospital, ReminderCooldownDays, today)
       THEN Continue(p, [loc[p] EXCEPT !.skippedCount = @ + 1,
                                       !.skipped = Append(@, donor)])
       ELSE /\ pc' = [pc EXCEPT ![p] = "send_create"]
            /\ UNCHANGED <<loc, resp>>
    /\ UNCHANGED <<inv, now, req, prev, base, eligVars, remVars, auxVars>>

SendCreate_recheck(p) ==
    /\ pc[p] = "send_create"
    /\ Len(notifs) < MaxNotifs
    /\ LET donor == loc[p].donors[loc[p].i] IN
       IF wasReminderSentRecently(notifs, donor, req[p].hospital, ReminderCooldownDays, today)
       THEN /\ UNCHANGED notifs
            /\ Continue(p, [loc[p] EXCEPT !.skippedCount = @ + 1,
                                          !.skipped = Append(@, donor)])
       ELSE /\ notifs' = Append(notifs, NewNotification(donor, req[p].hospital, "bulk", today))
            /\ Continue(p, [loc[p] EXCEPT !.sentCount = @ + 1,
                                          !.results = Append(@, [donor |-> donor, status |-> "sent"])])
    /\ UNCHANGED <<inv, now, req, prev, base, eligVars, users, auxVars>>

\* POST /reminders/send: await Notification.create({...}); sentCount++; results.push
SendCreate(p) ==
    /\ pc[p] = "send_create"
    /\ Len(notifs) < MaxNotifs
    /\ LET donor == loc[p].donors[loc[p].i] IN
       /\ notifs' = Append(notifs, NewNotification(donor, req[p].hospital, "bulk", today))
       /\ Continue(p, [loc[p] EXCEPT !.sentCount = @ + 1,
                                     !.results = Append(@, [donor |-> donor, status |-> "sent"])])
    /\ UNCHANGED <<inv, now, req, prev, base, eligVars, users, auxVars>>

\* POST /reminders/send: Notification.create rejects; the catch around the
\* whole handler replies 500
SendCreateFails(p) ==
    /\ pc[p] = "send_create"
    /\ Finish(p, Reply(500, "Server error sending reminders"))
    /\ UNCHANGED <<inv, now, req, loc, prev, base, eligVars, remVars, auxVars>>

\* POST /reminders/send-single: const donor = await User.findOne({ _id, role: 'donor' });
\* the query casts _id to an ObjectId and rejects with a CastError when the
\* string is not one, which the catch of the handler turns into 500
SingleFind(p) ==
    /\ pc[p] = "single_find"
    /\ IF req[p].donor_id \in MalformedIds
       THEN Finish(p, Reply(500, "Server error sending reminder"))
       ELSE IF req[p].donor_id \in UserIds /\ users[req[p].donor_id].role = "donor"
            THEN /\ pc' = [pc EXCEPT ![p] = "single_create"]
                 /\ UNCHANGED resp
            ELSE Finish(p, Reply(404, "Donor not found"))
    /\ UNCHANGED <<inv, now, req, loc, prev, base, eligVars, remVars, auxVars>>

SingleCreate_cooldown(p) ==
    /\ pc[p] = "single_create"
    /\ Len(notifs) < MaxNotifs
    /\ notifs' = IF wasReminderSentRecently(notifs, req[p].donor_id, req[p].hospital,
                                            ReminderCooldownDays, today)
                 THEN notifs
                 ELSE Append(notifs, NewNotification(req[p].donor_id, req[p].hospital, "single", today))
    /\ Finish(p, Reply(200, "Reminder sent"))
    /\ UNCHANGED <<inv, now, req, loc, prev, base, eligVars, users, auxVars>>

SingleCreate_general(p) ==
    /\ pc[p] = "single_create"
    /\ Len(notifs) < MaxNotifs
    /\ notifs' = Append(notifs, [NewNotification(req[p].donor_id, req[p].hospital, "single", today)
                                   EXCEPT !.type = "general"])
    /\ Finish(p, Reply(200, "Reminder sent"))
    /\ UNCHANGED <<inv, now, req, loc, prev, base, eligVars, users, auxVars>>

\* POST /reminders/send-single: await Notification.create({...}); res.json
SingleCreate(p) ==
    /\ pc[p] = "single_create"
    /\ Len(notifs) < MaxNotifs
    /\ notifs' = Append(notifs, NewNotification(req[p].donor_id, req[p].hospital, "single", today))
    /\ Finish(p, Reply(200, "Reminder sent"))
    /\ UNCHANGED <<inv, now, req, loc, prev, base, eligVars, users, auxVars>>

\* notificationSchema.methods.markAsSent on a stored notification: status and
\* sent_at are set and the document is saved (no route calls it)
markAsSent(doc, current) == [doc EXCEPT !.status = "sent", !.sent_at = current]

MarkAsSent ==
    /\ \E n \in 1..Len(notifs) : notifs' = [notifs EXCEPT ![n] = markAsSent(@, today)]
    /\ UNCHANGED <<inv, now, pc, req, loc, resp, prev, base, eligVars, users, auxVars>>

(* ------------------------------ GET /reminders ------------------------- *)
\* res.json of GET /reminders
ListReply(l) ==
    [Reply(200, "") EXCEPT
        !.donors = l.eligibleDonors,
        !.pending_reminders =
            Cardinality({i \in 1..Len(l.eligibleDonors) : ~l.eligibleDonors[i].reminder_sent})]

\* the loop of GET /reminders goes on from locals l: to the next await, or
\* to the reply
ContinueList(p, l) ==
    LET j == NextToCheck(l.donors, l.i + 1, users, today)
        m == [l EXCEPT !.i = j]
    IN /\ loc' = [loc EXCEPT ![p] = m]
       /\ IF j > Len(l.donors)
          THEN Finish(p, ListReply(m))
          ELSE /\ pc' = [pc EXCEPT ![p] = "list_check"]
               /\ UNCHANGED resp

\* GET /reminders: const donors = await User.find({ role: 'donor' })
ListFind(p) ==
    /\ pc[p] = "list_find"
    /\ ContinueList(p, [loc[p] EXCEPT !.donors = FindDonors(users, 1), !.i = 0,
                                      !.start = Len(notifs)])
    /\ UNCHANGED <<inv, now, req, prev, base, eligVars, remVars, auxVars>>

\* GET /reminders: reminderSent = await wasReminderSentRecently(...);
\* eligibleDonors.push({...})
ListCheck(p) ==
    /\ pc[p] = "list_check"
    /\ LET donor == loc[p].donors[loc[p].i]
           entry == [id |-> donor,
                     last_donation |-> users[donor].lastDonation,
                     eligible_from |-> getEligibleDate(users[donor].lastDonation, today),
                     reminder_sent |-> wasReminderSentRecently(notifs, donor, req[p].hospital,
                                                               ReminderCooldownDays, today)]
       IN ContinueList(p, [loc[p] EXCEPT !.eligibleDonors = Append(@, entry)])
    /\ UNCHANGED <<inv, now, req, prev, base, eligVars, remVars, auxVars>>

\* days on which requests are made, counted from the first: the last day
\* inside the cooldown of a reminder of day 0, and the first day outside it
DayMarks == {0, ReminderCooldownDays, ReminderCooldownDays + 1}
StartDay == Day(2024, 1, 1)
\* profile.lastDonation of a donor: none, one that makes the donor eligible
\* from StartDay + 30 on, one that leaves the donor ineligible on all days
DonorHistories == {NoDate, Day(2023, 10, 31), Day(2023, 12, 15)}

InitReminders ==
    /\ inv = NoStore
    /\ base = NoStore
    /\ Quiet
    /\ lastDonation = NoDate
    /\ verdict = NoVerdict
    /\ today = StartDay
    /\ users \in {[NoUsers EXCEPT !["d1"].lastDonation = a, !["d2"].lastDonation = b] :
                    a \in DonorHistories, b \in DonorHistories}
    /\ notifs = <<>>
    /\ NoAux

\* a later day begins; a request is over long before the day is
LaterDay ==
    /\ \A p \in Procs : pc[p] = "idle"
    /\ \E m \in DayMarks : StartDay + m > today /\ today' = StartDay + m
    /\ UNCHANGED <<inv, now, pc, req, loc, resp, prev, base, lastDonation, verdict, remVars, auxVars>>

(* ------------------------------ hospital search ----------------------- *)
\* Strings are sequences of characters; the characters that occur, with their
\* code units (the order of a MongoDB sort and of a comparison of strings)
CodeUnit(c) ==
    CASE c = " " -> 32 [] c = "(" -> 40 [] c = "." -> 46
      [] c = "A" -> 65 [] c = "B" -> 66 [] c = "a" -> 97 [] c = "b" -> 98

\* String.prototype.toLowerCase
LowerChar(c) == CASE c = "A" -> "a" [] c = "B" -> "b" [] OTHER -> c
toLowerCase(str) == [i \in 1..Len(str) |-> LowerChar(str[i])]

\* String.prototype.trim
RECURSIVE trimStart(_)
trimStart(str) == IF str # <<>> /\ Head(str) = " " THEN trimStart(Tail(str)) ELSE str
RECURSIVE trimEnd(_)
trimEnd(str) ==
    IF str # <<>> /\ str[Len(str)] = " " THEN trimEnd(SubSeq(str, 1, Len(str) - 1)) ELSE str
trim(str) == trimEnd(trimStart(str))

\* new RegExp(pattern, 'i'): the string is read as a pattern, in which "." stands
\* for any character and "(" opens a group; an unclosed group is a SyntaxError
RegExpThrows(pattern) == \E i \in 1..Len(pattern) : pattern[i] = "("

\* { $regex: new RegExp(pattern, 'i') }: the pattern matches somewhere in text
RegExpTest(pattern, text) ==
    \E off \in 0..(Len(text) - Len(pattern)) :
        \A i \in 1..Len(pattern) :
            \/ pattern[i] = "."
            \/ LowerChar(pattern[i]) = LowerChar(text[off + i])

\* comparison of two strings by code units
RECURSIVE StringLess(_, _)
StringLess(a, b) ==
    IF b = <<>> THEN FALSE
    ELSE IF a = <<>> THEN TRUE
    ELSE IF Head(a) # Head(b) THEN CodeUnit(Head(a)) < CodeUnit(Head(b))
    ELSE StringLess(Tail(a), Tail(b))

\* .sort({ name: 1 }) of the documents of coll at the positions in S
RECURSIVE SortByName(_, _)
SortByName(coll, S) ==
    IF S = {} THEN <<>>
    ELSE LET i == CHOOSE j \in S :
                    \A k \in S \ {j} : \/ StringLess(coll[j].name, coll[k].name)
                                       \/ (coll[j].name = coll[k].name /\ j < k)
         IN <<coll[i]>> \o SortByName(coll, S \ {i})

\* hospitalSchema.statics.searchByLocation
searchByLocation(coll, term) ==
    LET normalizedTerm == trim(toLowerCase(term))
        exact == {i \in 1..Len(coll) : coll[i].city = normalizedTerm /\ coll[i].isActive}
        partial == {i \in 1..Len(coll) :
                      /\ \/ RegExpTest(normalizedTerm, coll[i].city)
                         \/ RegExpTest(normalizedTerm, coll[i].address)
                         \/ RegExpTest(normalizedTerm, coll[i].state)
                      /\ coll[i].isActive}
    IN IF exact # {}
       THEN [done |-> TRUE, error |-> FALSE, hospitals |-> SortByName(coll, exact)]
       ELSE IF RegExpThrows(normalizedTerm)
       THEN [done |-> TRUE, error |-> TRUE, hospitals |-> <<>>]
       ELSE [done |-> TRUE, error |-> FALSE, hospitals |-> SortByName(coll, partial)]

\* names of the stored hospitals, in order of insertion
HospitalNames == << <<"b">>, <<"A", "b">>, <<"a">> >>
\* city (stored trimmed and in lower case), address and state of a hospital
Locations ==
    {[city |-> <<"a">>, address |-> <<"b">>, state |-> <<>>],
     [city |-> <<"a", "b">>, address |-> <<"b">>, state |-> <<"A">>],
     [city |-> <<"b">>, address |-> <<"A", " ", "b">>, state |-> <<>>],
     [city |-> <<"b">>, address |-> <<"b">>, state |-> <<"A", "B">>]}
\* arguments of searchByLocation
SearchTerms ==
    {<<"a">>, <<"A", " ">>, <<" ", "b">>, <<"A", "B">>, <<"b", "a">>, <<" ">>,
     <<".">>, <<"a", ".">>, <<"(">>}

InitSearch ==
    /\ inv = NoStore /\ base = NoStore /\ Quiet
    /\ lastDonation = NoDate /\ today = 0 /\ verdict = NoVerdict
    /\ users = NoUsers /\ notifs = <<>>
    /\ hospitals \in {[i \in 1..Len(HospitalNames) |->
                         [name |-> HospitalNames[i], city |-> l[i].city,
                          address |-> l[i].address, state |-> l[i].state,
                          isActive |-> a[i]]] :
                      l \in [1..Len(HospitalNames) -> Locations],
                      a \in [1..Len(HospitalNames) -> BOOLEAN]}
    /\ searchTerm = <<>>
    /\ searchResult = NoFound
    /\ NoCalls

\* a caller searches the hospitals
Search ==
    /\ \E t \in SearchTerms :
         /\ searchTerm' = t
         /\ searchResult' = searchByLocation(hospitals, t)
    /\ UNCHANGED <<inv, now, pc, req, loc, resp, prev, base, eligVars, remVars, hospitals,
                   apiVars, authVars>>

(* ------------------------------ role restriction ----------------------- *)
isHospitalStaff_any(role) == TRUE

\* router.use(isHospitalStaff): next() is called for the role hospital only
isHospitalStaff(role) == role = "hospital"

\* a request of an authenticated user on any route of the router: the
\* middleware answers 403 before the handler runs, or hands over to it
Enter(p, callers) ==
    /\ pc[p] = "idle"
    /\ \E u \in callers :
         IF isHospitalStaff(users[u].role)
         THEN \/ Receive(p, {u}, Ops, BodyGroups)
              \/ ReceiveReminder(p, {u}, ReminderOps \cup {"list"})
         ELSE /\ \E op \in Ops \cup ReminderOps \cup {"list"} :
                   req' = [req EXCEPT ![p] = [NoReq EXCEPT !.op = op, !.hospital = u]]
              /\ Finish(p, Reply(403, "Access denied. Hospital staff only."))
              /\ UNCHANGED <<inv, now, loc, prev, base, eligVars, remVars, auxVars>>

(* ------------------------------ requests and admin routes -------------- *)
\* the frame of a call outside the hospital router
ApiFrame ==
    UNCHANGED <<inv, now, pc, req, loc, resp, prev, base, eligVars, remVars, searchVars, authVars>>

\* POST /api/requests: roleCheck('seeker', 'hospital'); BloodRequest.create
CreateRequest ==
    /\ Len(requests) < MaxRequests
    /\ \E u \in UserIds :
         /\ users[u].role \in {"seeker", "hospital"}
         /\ requests' = Append(requests,
                               [requesterId |-> u,
                                requesterType |-> IF users[u].role = "hospital"
                                                  THEN "hospital" ELSE "seeker"])
         /\ call' = [NoCall EXCEPT !.route = "POST /api/requests", !.caller = u, !.status = 201]
    /\ ApiFrame

\* BloodRequest.find(query).sort({ createdAt: -1 }); query = {} matches all
RECURSIVE FindRequests(_, _, _, _)
FindRequests(coll, filtered, requesterId, i) ==
    IF i < 1 THEN <<>>
    ELSE IF ~filtered \/ coll[i].requesterId = requesterId
         THEN <<coll[i]>> \o FindRequests(coll, filtered, requesterId, i - 1)
         ELSE FindRequests(coll, filtered, requesterId, i - 1)

\* GET /api/requests by an authenticated user: query.requesterId is set for
\* the roles seeker and hospital
ListRequests ==
    /\ \E u \in UserIds :
         LET filtered == users[u].role = "seeker" \/ users[u].role = "hospital" IN
         call' = [NoCall EXCEPT !.route = "GET /api/requests", !.caller = u, !.status = 200,
                                !.requests = FindRequests(requests, filtered, u, Len(requests))]
    /\ UNCHANGED requests
    /\ ApiFrame

\* getDashboardData: the users of each role but admin
getDashboardData(us) ==
    [donors |-> FindByRole(us, "donor", Len(UserOrder)),
     hospitals |-> FindByRole(us, "hospital", Len(UserOrder)),
     seekers |-> FindByRole(us, "seeker", Len(UserOrder))]

\* GET /admin-dashboard by an authenticated user
GetDashboard ==
    /\ \E u \in UserIds :
         call' = IF users[u].role # "admin"
                 THEN [NoCall EXCEPT !.route = "GET /admin-dashboard", !.caller = u,
                                     !.status = 403]
                 ELSE [NoCall EXCEPT !.route = "GET /admin-dashboard", !.caller = u,
                                     !.status = 200, !.data = getDashboardData(users)]
    /\ UNCHANGED requests
    /\ ApiFrame

\* the token a request body may carry: none, a string that is no token, the
\* token of a donor, the token of the admin
BodyTokens == {"", "junk", "token-d1", "token-a1"}

\* POST /admin-dashboard: no middleware; !token -> 401, else the data
PostDashboard ==
    /\ \E t \in BodyTokens :
         call' = IF t = ""
                 THEN [NoCall EXCEPT !.route = "POST /admin-dashboard", !.token = t,
                                     !.status = 401]
                 ELSE [NoCall EXCEPT !.route = "POST /admin-dashboard", !.token = t,
                                     !.status = 200, !.data = getDashboardData(users)]
    /\ UNCHANGED requests
    /\ ApiFrame

(* ------------------------------ AuthProvider --------------------------- *)
\* the frame of a step of the frontend
AuthFrame ==
    UNCHANGED <<inv, now, pc, req, loc, resp, prev, base, eligVars, remVars, searchVars, apiVars>>

\* the tokens that POST /auth/login may answer with; "t0" is the token left
\* in localStorage by an earlier visit of user "u0"
LoginTokens == {"t1", "t2"}

\* initAuth's catch and its two else branches: removeItem; setToken(null);
\* then setLoading(false)
ClearToken ==
    /\ localStorage' = null
    /\ authState' = [authState EXCEPT !.token = null, !.loading = FALSE]
    /\ initAuth' = [initAuth EXCEPT !.pc = "done"]

\* the page is opened in a browser that holds a token of an earlier visit or
\* none: the provider renders and its effect runs initAuth up to its first
\* await
InitAuthStart ==
    /\ initAuth.pc = "unmounted"
    /\ \E storedToken \in {null, "t0"} :
         /\ localStorage' = storedToken
         /\ IF storedToken # null
            THEN /\ authState' = [authState EXCEPT !.token = storedToken]
                 /\ initAuth' = [pc |-> "fetch", storedToken |-> storedToken]
            ELSE /\ authState' = [authState EXCEPT !.loading = FALSE]
                 /\ initAuth' = [initAuth EXCEPT !.pc = "done"]
    /\ UNCHANGED login
    /\ AuthFrame

\* await fetch('/api/auth/me') settles: response.ok, not ok, or a rejection
InitAuthFetch ==
    /\ initAuth.pc = "fetch"
    /\ \E outcome \in {"ok", "not ok", "throw"} :
         IF outcome = "ok"
         THEN /\ initAuth' = [initAuth EXCEPT !.pc = "json"]
              /\ UNCHANGED <<authState, localStorage>>
         ELSE ClearToken
    /\ UNCHANGED login
    /\ AuthFrame

\* await response.json() settles: data with a user, data without, a rejection
InitAuthJson ==
    /\ initAuth.pc = "json"
    /\ \E outcome \in {"user", "no user", "throw"} :
         IF outcome = "user"
         THEN /\ authState' = [authState EXCEPT !.user = "u0", !.loading = FALSE]
              /\ initAuth' = [initAuth EXCEPT !.pc = "done"]
              /\ UNCHANGED localStorage
         ELSE ClearToken
    /\ UNCHANGED login
    /\ AuthFrame

\* login(email, password, role) up to its first await
LoginStart ==
    /\ initAuth.pc # "unmounted"
    /\ login.pc = "idle"
    /\ authState' = [authState EXCEPT !.loading = TRUE]
    /\ login' = [pc |-> "fetch", ok |-> FALSE]
    /\ UNCHANGED <<localStorage, initAuth>>
    /\ AuthFrame

\* await fetch('/api/auth/login') settles; a rejection goes to catch, finally
LoginFetch ==
    /\ login.pc = "fetch"
    /\ \E outcome \in {"ok", "not ok", "throw"} :
         IF outcome = "throw"
         THEN /\ authState' = [authState EXCEPT !.loading = FALSE]
              /\ login' = [pc |-> "idle", ok |-> FALSE]
         ELSE /\ login' = [pc |-> "json", ok |-> outcome = "ok"]
              /\ UNCHANGED authState
    /\ UNCHANGED <<localStorage, initAuth>>
    /\ AuthFrame

\* await response.json() settles: setItem, setToken, setUser on success;
\* finally setLoading(false)
LoginJson ==
    /\ login.pc = "json"
    /\ \E success \in BOOLEAN, apiUser \in {"u0", "u1"}, newToken \in LoginTokens :
         IF login.ok /\ success
         THEN /\ localStorage' = newToken
              /\ authState' = [user |-> apiUser, token |-> newToken, loading |-> FALSE]
         ELSE /\ authState' = [authState EXCEPT !.loading = FALSE]
              /\ UNCHANGED localStorage
    /\ login' = [pc |-> "idle", ok |-> FALSE]
    /\ UNCHANGED initAuth
    /\ AuthFrame

\* logout()
Logout ==
    /\ initAuth.pc # "unmounted"
    /\ authState' = [authState EXCEPT !.user = null, !.token = null]
    /\ localStorage' = null
    /\ UNCHANGED <<initAuth, login>>
    /\ AuthFrame

(* ------------------------------ specifications ------------------------- *)
\* requests of two staff members of one hospital served concurrently, within
\* one reading of the clock
Next ==
    \/ \E p \in Procs : Receive(p, SharedAccount, Ops, BodyGroups)
    \/ \E p \in Procs : Return(p)
    \/ \E p \in Procs : GetFind(p)
    \/ \E p \in Procs : GetCreate(p)
    \/ \E p \in Procs : GetRefind(p)
    \/ \E p \in Procs : AddFind(p)
    \/ \E p \in Procs : AddSave(p)
    \/ \E p \in Procs : AddCreate(p)
    \/ \E p \in Procs : UpdUpsert(p)
    \/ \E p \in Procs : RedFind(p)
    \/ \E p \in Procs : RedSave(p)

Spec == Init /\ [][Next]_vars

\* one client issuing one request after the other
NextSeq ==
    \/ Tick
    \/ \E p \in SeqProcs : Receive(p, SharedAccount, Ops, BodyGroups)
    \/ \E p \in SeqProcs : ReturnSeq(p)
    \/ \E p \in SeqProcs : GetFind(p)
    \/ \E p \in SeqProcs : GetCreate(p)
    \/ \E p \in SeqProcs : GetRefind(p)
    \/ \E p \in SeqProcs : AddFind(p)
    \/ \E p \in SeqProcs : AddSave(p)
    \/ \E p \in SeqProcs : AddCreate(p)
    \/ \E p \in SeqProcs : UpdUpsert(p)
    \/ \E p \in SeqProcs : RedFind(p)
    \/ \E p \in SeqProcs : RedSave(p)

SpecSeq == Init /\ [][NextSeq]_vars

\* add and reduce requests issued once each, concurrently, on a stored record
ARKey == <<"h1", "A+">>
InitAR ==
    /\ inv \in {[NoStore EXCEPT ![ARKey] = d] :
                  d \in {NoDoc} \cup {NewDoc(u, 0) : u \in 0..MaxUnits}}
    /\ base = inv
    /\ Quiet
    /\ NoDonor

NextAR ==
    \/ Tick
    \/ \E p \in Procs : Receive(p, SharedAccount, {"add", "reduce"}, BodyGroups)
    \/ \E p \in Procs : AddFind(p)
    \/ \E p \in Procs : AddSave(p)
    \/ \E p \in Procs : AddCreate(p)
    \/ \E p \in Procs : RedFind(p)
    \/ \E p \in Procs : RedSave(p)

SpecAR == InitAR /\ [][NextAR]_vars

\* the eligibility rule over donation and request dates
NextElig == Evaluate \/ NextDay

SpecElig == InitElig /\ [][NextElig]_vars

\* two hospitals with two blood groups each, two staff requests in flight
FrameGroups == {"A+", "O-"}
FrameKeys == Hospitals \X FrameGroups
FrameOps == {"add", "update", "reduce"}

InitFrame ==
    /\ inv \in {[k \in Keys |-> IF k \in FrameKeys THEN f[k] ELSE NoDoc] :
                  f \in [FrameKeys -> {NoDoc, NewDoc(1, 0)}]}
    /\ base = inv
    /\ Quiet
    /\ NoDonor

NextFrame ==
    \/ Tick
    \/ \E p \in Procs : Receive(p, Hospitals, FrameOps, FrameGroups)
    \/ \E p \in Procs : AddFind(p)
    \/ \E p \in Procs : AddSave(p)
    \/ \E p \in Procs : AddCreate(p)
    \/ \E p \in Procs : UpdUpsert(p)
    \/ \E p \in Procs : RedFind(p)
    \/ \E p \in Procs : RedSave(p)

SpecFrame == InitFrame /\ [][NextFrame]_vars

\* one client whose requests carry every kind of units value
NextQty ==
    \/ Tick
    \/ \E p \in SeqProcs : ReceiveFrom(p, SharedAccount, FrameOps, BodyGroups, BodyUnits)
    \/ \E p \in SeqProcs : Return(p)
    \/ \E p \in SeqProcs : AddFind(p)
    \/ \E p \in SeqProcs : AddSave(p)
    \/ \E p \in SeqProcs : AddCreate(p)
    \/ \E p \in SeqProcs : UpdUpsert(p)
    \/ \E p \in SeqProcs : RedFind(p)
    \/ \E p \in SeqProcs : RedSave(p)

SpecQty == InitAR /\ [][NextQty]_vars

\* users of every role calling the routes of the hospital router, one request
\* at a time
NextRole ==
    \/ \E p \in SeqProcs : Enter(p, {"h1", "d1", "s1", "a1"})
    \/ \E p \in SeqProcs : Return(p)
    \/ \E p \in SeqProcs : GetFind(p)
    \/ \E p \in SeqProcs : GetCreate(p)
    \/ \E p \in SeqProcs : GetRefind(p)
    \/ \E p \in SeqProcs : AddFind(p)
    \/ \E p \in SeqProcs : AddSave(p)
    \/ \E p \in SeqProcs : AddCreate(p)
    \/ \E p \in SeqProcs : UpdUpsert(p)
    \/ \E p \in SeqProcs : RedFind(p)
    \/ \E p \in SeqProcs : RedSave(p)
    \/ \E p \in SeqProcs : SendFind(p)
    \/ \E p \in SeqProcs : SendCheck(p)
    \/ \E p \in SeqProcs : SendCreate(p)
    \/ \E p \in SeqProcs : SingleFind(p)
    \/ \E p \in SeqProcs : SingleCreate(p)
    \/ \E p \in SeqProcs : ListFind(p)
    \/ \E p \in SeqProcs : ListCheck(p)

SpecRole == Init /\ [][NextRole]_vars

\* the frontend session: the mount-time check racing with login and logout
NextAuth ==
    \/ InitAuthStart
    \/ InitAuthFetch
    \/ InitAuthJson
    \/ LoginStart
    \/ LoginFetch
    \/ LoginJson
    \/ Logout

SpecAuth == Init /\ [][NextAuth]_vars

\* calls of the requests and admin routers
NextApi == CreateRequest \/ ListRequests \/ GetDashboard \/ PostDashboard

SpecApi == Init /\ [][NextApi]_vars

\* searches of a hospitals collection
NextSearch == Search

SpecSearch == InitSearch /\ [][NextSearch]_vars

\* one hospital user at a time sending reminders, over several days
NextRem ==
    \/ LaterDay
    \/ \E p \in SeqProcs : ReceiveReminder(p, Hospitals, ReminderOps)
    \/ \E p \in SeqProcs : Return(p)
    \/ \E p \in SeqProcs : SendFind(p)
    \/ \E p \in SeqProcs : SendCheck(p)
    \/ \E p \in SeqProcs : SendCreate(p)
    \/ \E p \in SeqProcs : SingleFind(p)
    \/ \E p \in SeqProcs : SingleCreate(p)

SpecRem == InitReminders /\ [][NextRem]_vars

\* the same client also listing the eligible donors
NextList ==
    \/ LaterDay
    \/ \E p \in SeqProcs : ReceiveReminder(p, Hospitals, ReminderOps \cup {"list"})
    \/ \E p \in SeqProcs : Return(p)
    \/ \E p \in SeqProcs : SendFind(p)
    \/ \E p \in SeqProcs : SendCheck(p)
    \/ \E p \in SeqProcs : SendCreate(p)
    \/ \E p \in SeqProcs : SingleFind(p)
    \/ \E p \in SeqProcs : SingleCreate(p)
    \/ \E p \in SeqProcs : ListFind(p)
    \/ \E p \in SeqProcs : ListCheck(p)

SpecList == InitReminders /\ [][NextList]_vars

\* two bulk sends of one hospital in flight on the same day
NextRace ==
    \/ \E p \in Procs : ReceiveReminder(p, SharedAccount, {"send"})
    \/ \E p \in Procs : Return(p)
    \/ \E p \in Procs : SendFind(p)
    \/ \E p \in Procs : SendCheck(p)
    \/ \E p \in Procs : SendCreate(p)

SpecRace == InitReminders /\ [][NextRace]_vars

\* reminders of one hospital, and notifications marked as sent
NextStatus ==
    \/ LaterDay
    \/ MarkAsSent
    \/ \E p \in SeqProcs : ReceiveReminder(p, SharedAccount, ReminderOps)
    \/ \E p \in SeqProcs : Return(p)
    \/ \E p \in SeqProcs : SendFind(p)
    \/ \E p \in SeqProcs : SendCheck(p)
    \/ \E p \in SeqProcs : SendCreate(p)
    \/ \E p \in SeqProcs : SingleFind(p)
    \/ \E p \in SeqProcs : SingleCreate(p)

SpecStatus == InitReminders /\ [][NextStatus]_vars

\* bulk reminders during which a write of a notification may fail
NextRemFail ==
    \/ LaterDay
    \/ \E p \in SeqProcs : ReceiveReminder(p, Hospitals, {"send"})
    \/ \E p \in SeqProcs : Return(p)
    \/ \E p \in SeqProcs : SendFind(p)
    \/ \E p \in SeqProcs : SendCheck(p)
    \/ \E p \in SeqProcs : SendCreate(p)
    \/ \E p \in SeqProcs : SendCreateFails(p)

SpecRemFail == InitReminders /\ [][NextRemFail]_vars

(* ------------------------------ claims --------------------------------- *)
Done(p, op) == pc[p] = "done" /\ req[p].op = op
Ok(p) == resp[p].status = 200

\* C1: every inventory record has units_available >= 0 in every reachable
\* state, under any interleaving of get, add, update and reduce requests.
C1_NonNegative == \A k \in Keys : inv[k].present => inv[k].units_available >= 0

\* a reduce has emptied a record
C1_Witness ==
    \E p \in Procs : Done(p, "reduce") /\ Ok(p) /\ inv[KeyOf(p)].units_available = 0

\* C2: a reduce whose delta exceeds the units_available of the stored record
\* replies with the insufficient-stock error and changes no record.
C2_RejectsOverdraw ==
    [][\A p \in Procs :
         (/\ pc[p] = "red_find"
          /\ pc'[p] # "red_find"
          /\ inv[KeyOf(p)].present
          /\ UnitsOf(p) > inv[KeyOf(p)].units_available)
         => (/\ pc'[p] = "done"
             /\ resp'[p].status = 400
             /\ resp'[p].message = "Insufficient stock"
             /\ inv' = inv)]_vars

\* a reduce of more than a stored record held was answered
C2_Witness ==
    \E p \in Procs :
        /\ Done(p, "reduce")
        /\ loc[p].found.present
        /\ UnitsOf(p) > loc[p].found.units_available
        /\ resp[p].message = "Insufficient stock"
        /\ inv[KeyOf(p)] = loc[p].found

RECURSIVE SumOver(_, _)
SumOver(f, S) ==
    IF S = {} THEN 0
    ELSE LET x == CHOOSE y \in S : TRUE IN f[x] + SumOver(f, S \ {x})

\* what the successful add / reduce calls on k amount to
NetDelta(k) ==
    SumOver([p \in Procs |->
                IF pc[p] = "done" /\ Ok(p) /\ KeyOf(p) = k
                THEN (IF req[p].op = "add" THEN UnitsOf(p) ELSE 0 - UnitsOf(p))
                ELSE 0], Procs)

\* C3: once concurrent add / reduce calls on a record have all returned,
\* units_available is the initial value plus the deltas of the successful adds
\* minus the deltas of the successful reduces.
C3_Orig ==
    (\A p \in Procs : pc[p] = "done")
    => \A k \in Keys : inv[k].units_available = base[k].units_available + NetDelta(k)

GroupsOf(inventory) == {inventory[i].blood_group : i \in 1..Len(inventory)}

\* C4: every successful get_inventory returns exactly one record for each of
\* the 8 blood groups, whatever inventory operations preceded it.
C4_Orig ==
    \A p \in SeqProcs :
        (Done(p, "get") /\ Ok(p))
        => (Len(resp[p].inventory) = 8 /\ GroupsOf(resp[p].inventory) = BloodGroupSet)

\* C5: a get_inventory of a hospital that had no records returns 8 records, one
\* per blood group, each with 0 units and flagged low-stock, and the 8 records
\* are stored.
C5_SeedsEight ==
    \A p \in SeqProcs :
        (Done(p, "get") /\ loc[p].i > 0)
        => /\ Ok(p)
           /\ Len(resp[p].inventory) = 8
           /\ GroupsOf(resp[p].inventory) = BloodGroupSet
           /\ \A i \in 1..Len(resp[p].inventory) :
                  /\ resp[p].inventory[i].units_available = 0
                  /\ resp[p].inventory[i].is_low_stock
           /\ \A bg \in BloodGroupSet :
                  /\ inv[<<req[p].hospital, bg>>].present
                  /\ inv[<<req[p].hospital, bg>>].units_available = 0

\* a first get_inventory has been answered
C5_Witness ==
    \E p \in SeqProcs :
        Done(p, "get") /\ loc[p].i > 0 /\ Ok(p) /\ Len(resp[p].inventory) = 8

\* the reduce just answered undoes the successful add answered right before it
UndoesAdd(p) ==
    /\ Done(p, "reduce")
    /\ prev[p].req.op = "add"
    /\ prev[p].status = 200
    /\ prev[p].req.hospital = req[p].hospital
    /\ prev[p].req.blood_group = req[p].blood_group
    /\ prev[p].req.units = req[p].units

\* C6: add_units(h, bg, n) directly followed by reduce_units(h, bg, n) succeeds
\* and leaves units_available at its value before the add (0 when the add
\* created the record).
C6_AddThenReduce ==
    \A p \in SeqProcs :
        UndoesAdd(p)
        => (Ok(p) /\ inv[KeyOf(p)].units_available = prev[p].found_units)

\* an add on a record holding units was undone
C6_Witness ==
    \E p \in SeqProcs : UndoesAdd(p) /\ Ok(p) /\ prev[p].found_units > 0

ValidSet(p) ==
    /\ Done(p, "update")
    /\ req[p].blood_group # ""
    /\ req[p].units.kind = "num"
    /\ req[p].units.val >= 0

\* C7: set_units(h, bg, u) with u >= 0 succeeds and leaves units_available = u,
\* whatever the record held before and also when the call repeats the one before.
C7_SetReplaces ==
    \A p \in SeqProcs :
        ValidSet(p)
        => /\ Ok(p)
           /\ inv[KeyOf(p)].units_available = UnitsOf(p)
           /\ resp[p].doc.units_available = UnitsOf(p)

\* the same set_units was answered twice in a row, with u > 0
C7_Witness ==
    \E p \in SeqProcs :
        /\ ValidSet(p) /\ Ok(p)
        /\ UnitsOf(p) > 0
        /\ prev[p].req = req[p]
        /\ prev[p].status = 200
        /\ inv[KeyOf(p)].units_available = UnitsOf(p)

PlusCalendarMonths(t, n) ==
    LET y == getFullYear(t) + ((getMonth(t) + n) \div 12)
        m == (getMonth(t) + n) % 12
        d == IF getDate(t) <= DaysInMonth(y, m) THEN getDate(t) ELSE DaysInMonth(y, m)
    IN MakeDay(y, m, d)

\* C9: a donor without last_donation_date is eligible; a donor with one is
\* eligible exactly when now >= last_donation_date plus 3 calendar months, and
\* eligible_from is that date.
C9_Orig ==
    verdict.evaluated
    => IF lastDonation = NoDate THEN verdict.isEligible
       ELSE /\ verdict.isEligible <=> (today >= PlusCalendarMonths(lastDonation, 3))
            /\ verdict.eligible_from = PlusCalendarMonths(lastDonation, 3)

\* the day of the month of the donation does not exist three months later
Rollover(t) ==
    LET y == getFullYear(t) + ((getMonth(t) + 3) \div 12)
        m == (getMonth(t) + 3) % 12
    IN getDate(t) > DaysInMonth(y, m)

\* C10: when the day of the month of last_donation_date does not exist three
\* months later, the donor is eligible from the last day of that month on and
\* not before (donation 2024-01-31: ineligible 2024-04-29, eligible 2024-04-30).
C10_Orig ==
    (verdict.evaluated /\ lastDonation # NoDate /\ Rollover(lastDonation))
    => (verdict.isEligible <=> (today >= PlusCalendarMonths(lastDonation, 3)))

(* ------------------------------ reminders ------------------------------ *)
SeqRange(q) == {q[i] : i \in 1..Len(q)}

\* the records that the call of p has created so far
CreatedBy(p) == {m \in 1..Len(notifs) : m > loc[p].start}

\* record n was written by a bulk send of hospital h before the call of p
\* began, and that call is made within 30 days of its sent_at
BulkWithinCooldown(p, n) ==
    /\ n <= loc[p].start
    /\ notifs[n].message = "bulk"
    /\ notifs[n].hospital_id = req[p].hospital
    /\ today - notifs[n].sent_at <= ReminderCooldownDays

\* C11: once a bulk send of hospital H has created a reminder for donor D, a
\* later bulk send of H made within 30 days of that reminder's sent_at creates
\* no record for D and counts D in skipped_count; and while only bulk sends
\* have written reminders, no two reminders of one (donor, hospital) pair have
\* sent_at values less than 30 days apart.
C11_BulkDedup ==
    /\ \A p \in Procs :
         (Done(p, "send") /\ Ok(p))
         => \A n \in 1..Len(notifs) :
              BulkWithinCooldown(p, n)
              => /\ \A m \in CreatedBy(p) : notifs[m].donor_id # notifs[n].donor_id
                 /\ notifs[n].donor_id \in SeqRange(loc[p].skipped)
                 /\ resp[p].skipped_count = Len(loc[p].skipped)
    /\ (\A n \in 1..Len(notifs) : notifs[n].message = "bulk")
       => \A i, j \in 1..Len(notifs) :
            (i < j /\ notifs[i].donor_id = notifs[j].donor_id
                   /\ notifs[i].hospital_id = notifs[j].hospital_id)
            => notifs[j].sent_at - notifs[i].sent_at >= ReminderCooldownDays

\* a bulk send on the 30th day after a reminder of the same hospital has
\* skipped its donor
C11_Witness ==
    \E p \in Procs :
        /\ Done(p, "send") /\ Ok(p)
        /\ \E n \in 1..Len(notifs) :
             /\ BulkWithinCooldown(p, n)
             /\ today = notifs[n].sent_at + ReminderCooldownDays
             /\ notifs[n].donor_id \in SeqRange(loc[p].skipped)

\* the reminders of hospital h to donor d that existed when the call of p began
EarlierReminders(p, d, h) ==
    {n \in 1..Len(notifs) : /\ n <= loc[p].start
                            /\ notifs[n].donor_id = d
                            /\ notifs[n].hospital_id = h
                            /\ notifs[n].type = "donation_reminder"}

\* donor d is eligible and was last reminded by the hospital of p more than
\* 30 days before the call
CooldownExpired(p, d) ==
    /\ users[d].role = "donor"
    /\ isDonorEligible(users[d].lastDonation, today)
    /\ EarlierReminders(p, d, req[p].hospital) # {}
    /\ \A n \in EarlierReminders(p, d, req[p].hospital) :
         today - notifs[n].sent_at > ReminderCooldownDays

ResultDonors(q) == {q[i].donor : i \in 1..Len(q)}

\* C12: when donor D is eligible and the most recent donation_reminder of
\* hospital H to D was sent more than 30 days ago, a bulk send of H creates a
\* new reminder for D and counts D in sent_count, not in skipped_count.
C12_CooldownExpiry ==
    \A p \in Procs :
        (Done(p, "send") /\ Ok(p))
        => \A d \in UserIds :
             CooldownExpired(p, d)
             => /\ \E m \in CreatedBy(p) : /\ notifs[m].donor_id = d
                                           /\ notifs[m].hospital_id = req[p].hospital
                                           /\ notifs[m].sent_at = today
                /\ d \in ResultDonors(resp[p].results)
                /\ resp[p].sent_count = Len(resp[p].results)
                /\ d \notin SeqRange(loc[p].skipped)

\* a bulk send has reminded a donor again, 31 days after the last reminder
C12_Witness ==
    \E p \in Procs, d \in UserIds :
        /\ Done(p, "send") /\ Ok(p)
        /\ CooldownExpired(p, d)
        /\ d \in ResultDonors(resp[p].results)

IsDonor(id) == id \in UserIds /\ users[id].role = "donor"

\* C13: send_single_reminder applies no cooldown check: for a donor-role user
\* every call succeeds and appends exactly one new reminder of the calling
\* hospital to that donor, whatever reminders exist already.
C13_SingleNoCooldown ==
    [][\A p \in Procs :
         (req[p].op = "single" /\ IsDonor(req[p].donor_id) /\ pc[p] # "done" /\ pc'[p] = "done")
         => /\ resp'[p].status = 200
            /\ notifs' = Append(notifs, NewNotification(req[p].donor_id, req[p].hospital,
                                                        "single", today))]_vars

\* two single reminders of one hospital to one donor, sent on the same day
C13_Witness ==
    \E p \in Procs :
        /\ Done(p, "single") /\ Ok(p)
        /\ \E i, j \in 1..Len(notifs) :
             /\ i < j /\ j = Len(notifs)
             /\ notifs[i] = notifs[j]
             /\ notifs[j] = NewNotification(req[p].donor_id, req[p].hospital, "single", today)

\* C14: send_single_reminder with a donor_id that does not identify an
\* existing donor-role user (no such user, or a seeker, hospital or admin)
\* fails with a not-found error and creates no record. Stated for requests
\* that carry a donor_id.
C14_Orig ==
    \A p \in Procs :
        (Done(p, "single") /\ req[p].donor_id # "" /\ ~IsDonor(req[p].donor_id))
        => /\ resp[p].status = 404
           /\ \A n \in 1..Len(notifs) : notifs[n].donor_id # req[p].donor_id

\* the part of C14 that the code keeps: a well-formed id of no donor-role
\* user is answered 404 and no record is written for it
C14_WellFormed ==
    \A p \in Procs :
        (Done(p, "single") /\ req[p].donor_id \notin MalformedIds \cup {""}
                           /\ ~IsDonor(req[p].donor_id))
        => /\ resp[p].status = 404
           /\ \A n \in 1..Len(notifs) : notifs[n].donor_id # req[p].donor_id

\* the records the call of p has created for donor d
CreatedFor(p, d) == {m \in CreatedBy(p) : notifs[m].donor_id = d}

\* how often x occurs in sequence q
Count(q, x) == Cardinality({i \in 1..Len(q) : q[i] = x})

\* hospital of p has reminded donor d within the 30 days before the call
RemindedWithinCooldown(p, d) ==
    \E n \in EarlierReminders(p, d, req[p].hospital) :
        today - notifs[n].sent_at <= ReminderCooldownDays

\* C15: in one completed bulk send of hospital H every eligible donor-role
\* user is either skipped (reminded by H within 30 days; no record written) or
\* gets exactly one new donation_reminder record; sent_count is the number of
\* records created and the length of results, skipped_count the number of
\* skipped donors; ineligible donors and non-donors get no record and are
\* counted in neither.
C15_BulkAccounting ==
    \A p \in Procs :
        (Done(p, "send") /\ Ok(p))
        => /\ \A d \in UserIds :
                IF IsDonor(d) /\ isDonorEligible(users[d].lastDonation, today)
                THEN IF RemindedWithinCooldown(p, d)
                     THEN /\ CreatedFor(p, d) = {}
                          /\ Count(loc[p].skipped, d) = 1
                          /\ d \notin ResultDonors(resp[p].results)
                     ELSE /\ Cardinality(CreatedFor(p, d)) = 1
                          /\ \A m \in CreatedFor(p, d) :
                               notifs[m] = NewNotification(d, req[p].hospital, "bulk", today)
                          /\ Count(loc[p].skipped, d) = 0
                          /\ Count(resp[p].results, [donor |-> d, status |-> "sent"]) = 1
                ELSE /\ CreatedFor(p, d) = {}
                     /\ Count(loc[p].skipped, d) = 0
                     /\ d \notin ResultDonors(resp[p].results)
           /\ resp[p].sent_count = Cardinality(CreatedBy(p))
           /\ resp[p].sent_count = Len(resp[p].results)
           /\ resp[p].skipped_count = Len(loc[p].skipped)

\* a bulk send that reminded one donor and skipped the other
C15_Witness ==
    \E p \in Procs :
        /\ Done(p, "send") /\ Ok(p)
        /\ resp[p].sent_count = 1
        /\ resp[p].skipped_count = 1

\* C16: when writing the reminder of one eligible donor fails during a bulk
\* send, the remaining donors are still processed and the call still reports
\* sent and skipped counts that match the records written.
C16_Orig ==
    \A p \in Procs :
        Done(p, "send")
        => /\ loc[p].i > Len(loc[p].donors)
           /\ Ok(p)
           /\ resp[p].sent_count = Cardinality(CreatedBy(p))
           /\ resp[p].skipped_count = Len(loc[p].skipped)

(* ------------------------------ inventory, continued ------------------- *)
\* the step completes a successful add, update or reduce of p
Completes(p) ==
    /\ req[p].op \in FrameOps
    /\ pc[p] # "done"
    /\ pc'[p] = "done"
    /\ resp'[p].status = 200

\* C17: a successful add_units, set_units or reduce_units on (h, bg) changes
\* the record of (h, bg) only, and of it units_available and last_updated
\* only: min_threshold stays, every other blood group's record of h and every
\* record of another hospital are unchanged; no other step changes a record.
C17_Frame ==
    [][/\ \A p \in Procs :
            Completes(p)
            => /\ \A k \in Keys \ {KeyOf(p)} : inv'[k] = inv[k]
               /\ inv'[KeyOf(p)].present
               /\ inv[KeyOf(p)].present
                  => inv'[KeyOf(p)].min_threshold = inv[KeyOf(p)].min_threshold
       /\ inv' # inv => \E p \in Procs : Completes(p)]_vars

\* a successful add has changed the record of its pair, while the other
\* record of that hospital and those of the other hospital, all present, are
\* as they were initially
C17_Witness ==
    \E p \in Procs :
        /\ Done(p, "add") /\ Ok(p)
        /\ inv[KeyOf(p)] # base[KeyOf(p)]
        /\ \A k \in FrameKeys \ {KeyOf(p)} : inv[k].present /\ inv[k] = base[k]

PositiveInteger(raw) == raw.kind = "num" /\ raw.val > 0
\* a units value that is negative, or is not a number
NegativeOrNonNumeric(raw) ==
    \/ raw.kind \in {"text", "prefix", "negfrac"}
    \/ raw.kind = "num" /\ raw.val < 0

\* the request of p carries a blood group and a units value
HasBody(p) == req[p].blood_group # "" /\ req[p].units.kind # "undefined"

\* C18: add_units and reduce_units reject every delta that is not a positive
\* integer (zero, negative, fractional, non-numeric); set_units rejects every
\* negative or non-numeric units value and accepts 0.
C18_Orig ==
    \A p \in Procs :
        /\ (pc[p] = "done" /\ req[p].op \in {"add", "reduce"} /\ HasBody(p)
              /\ ~PositiveInteger(req[p].units))
           => resp[p].status = 400
        /\ (Done(p, "update") /\ HasBody(p) /\ NegativeOrNonNumeric(req[p].units))
           => resp[p].status = 400
        /\ (Done(p, "update") /\ HasBody(p) /\ req[p].units = [kind |-> "num", val |-> 0])
           => Ok(p)

\* the part of C18 that the code keeps: with units an integer or a string
\* without leading digits, the three operations reject as the claim says, and
\* a rejecting step leaves every record as it was
C18_IntegersAndText ==
    [][\A p \in Procs :
         (pc[p] = "idle" /\ pc'[p] # "idle" /\ req'[p].units \in RawUnits
            /\ req'[p].blood_group # "" /\ req'[p].units.kind # "undefined")
         => LET u == req'[p].units
                bad == IF req'[p].op = "update" THEN NegativeOrNonNumeric(u)
                       ELSE ~PositiveInteger(u)
            IN /\ bad <=> (pc'[p] = "done" /\ resp'[p].status = 400)
               /\ inv' = inv]_vars

\* C19: reduce_units(h, bg, delta) with delta > 0 on a pair without a record
\* fails with the not-found error and creates nothing: the pair has no record
\* after the step and no other record has changed.
C19_ReduceNotFound ==
    [][\A p \in Procs :
         (pc[p] = "red_find" /\ pc'[p] # "red_find" /\ ~inv[KeyOf(p)].present)
         => /\ UnitsOf(p) > 0
            /\ pc'[p] = "done"
            /\ resp'[p].status = 400
            /\ resp'[p].message = "No inventory found"
            /\ ~inv'[KeyOf(p)].present
            /\ inv' = inv]_vars

\* a reduce by a positive delta was refused because the pair has no record
C19_Witness ==
    \E p \in Procs :
        /\ Done(p, "reduce")
        /\ UnitsOf(p) > 0
        /\ resp[p].status = 400
        /\ resp[p].message = "No inventory found"
        /\ ~inv[KeyOf(p)].present

\* C20: add_units(h, bg, delta) with delta > 0, run without concurrent calls,
\* always succeeds and leaves units_available = prior + delta, prior being the
\* record's previous units_available, or 0 when the pair had no record, in
\* which case a record with min_threshold 2 is created.
C20_AddSequential ==
    \A p \in SeqProcs :
        (Done(p, "add") /\ HasBody(p) /\ ~parseInt(req[p].units).nan /\ UnitsOf(p) > 0)
        => /\ Ok(p)
           /\ inv[KeyOf(p)].present
           /\ resp[p].doc = inv[KeyOf(p)]
           /\ IF loc[p].found.present
              THEN inv[KeyOf(p)] =
                     [loc[p].found EXCEPT !.units_available = @ + UnitsOf(p),
                                          !.last_updated = inv[KeyOf(p)].last_updated]
              ELSE /\ inv[KeyOf(p)].units_available = 0 + UnitsOf(p)
                   /\ inv[KeyOf(p)].min_threshold = 2

\* an add to a record that held units before
C20_Witness ==
    \E p \in SeqProcs :
        /\ Done(p, "add") /\ Ok(p)
        /\ loc[p].found.present
        /\ loc[p].found.units_available > 0
        /\ inv[KeyOf(p)].units_available = loc[p].found.units_available + UnitsOf(p)

(* ------------------------------ reminders, continued ------------------- *)
\* the donor-role users that are eligible today
EligibleDonors ==
    {d \in UserIds : IsDonor(d) /\ isDonorEligible(users[d].lastDonation, today)}

\* hospital h has sent donor d a donation_reminder within the last 30 days
RemindedBy(h, d) ==
    \E n \in 1..Len(notifs) :
        /\ notifs[n].donor_id = d
        /\ notifs[n].hospital_id = h
        /\ notifs[n].type = "donation_reminder"
        /\ today - notifs[n].sent_at <= ReminderCooldownDays

ListedIds(q) == {q[i].id : i \in 1..Len(q)}

\* C21: list_eligible_donors(H) returns exactly the donor-role users eligible
\* at call time, reminded or not, each once, and flags a donor as already
\* reminded exactly when H itself sent that donor a donation_reminder within
\* the last 30 days; a reminder of another hospital neither sets the flag nor
\* makes a bulk send of H skip the donor.
C21_ListEligible ==
    \A p \in Procs :
        /\ (Done(p, "list") /\ Ok(p))
           => /\ ListedIds(resp[p].donors) = EligibleDonors
              /\ Len(resp[p].donors) = Cardinality(EligibleDonors)
              /\ \A i \in 1..Len(resp[p].donors) :
                   resp[p].donors[i].reminder_sent
                   <=> RemindedBy(req[p].hospital, resp[p].donors[i].id)
        /\ (Done(p, "send") /\ Ok(p))
           => \A d \in SeqRange(loc[p].skipped) : RemindedWithinCooldown(p, d)

\* a donor reminded by the other hospital within 30 days is listed as not yet
\* reminded
C21_Witness ==
    \E p \in Procs, h \in Hospitals : \E i \in 1..Len(resp[p].donors) :
        /\ Done(p, "list") /\ Ok(p)
        /\ h # req[p].hospital
        /\ RemindedBy(h, resp[p].donors[i].id)
        /\ ~resp[p].donors[i].reminder_sent

(* ------------------------------ hospital search ------------------------ *)
\* text contains the string t
Contains(text, t) ==
    \E off \in 0..(Len(text) - Len(t)) : SubSeq(text, off + 1, off + Len(t)) = t

\* the search term, trimmed and lower-cased
TermOf(t) == trim(toLowerCase(t))

ActiveWithCity(t) ==
    {i \in 1..Len(hospitals) : hospitals[i].isActive /\ hospitals[i].city = TermOf(t)}

ActiveContaining(t) ==
    {i \in 1..Len(hospitals) :
        /\ hospitals[i].isActive
        /\ \/ Contains(toLowerCase(hospitals[i].city), TermOf(t))
           \/ Contains(toLowerCase(hospitals[i].address), TermOf(t))
           \/ Contains(toLowerCase(hospitals[i].state), TermOf(t))}

\* the hospitals a two-tier search for t is to return
Expected(t) == IF ActiveWithCity(t) # {} THEN ActiveWithCity(t) ELSE ActiveContaining(t)

\* the result of a search for the term is what the two tiers prescribe, each
\* hospital once, in ascending order of name
TwoTier ==
    /\ ~searchResult.error
    /\ {searchResult.hospitals[i] : i \in 1..Len(searchResult.hospitals)}
         = {hospitals[i] : i \in Expected(searchTerm)}
    /\ Len(searchResult.hospitals) = Cardinality(Expected(searchTerm))
    /\ \A i, j \in 1..Len(searchResult.hospitals) :
         i < j => StringLess(searchResult.hospitals[i].name, searchResult.hospitals[j].name)

\* C22: hospital location search is two-tier: with the term trimmed and
\* lower-cased, the result is the active hospitals whose city equals the term
\* when there is one, and otherwise the active hospitals whose city, address
\* or state contains the term case-insensitively; inactive hospitals are
\* excluded and the result is sorted by name ascending.
C22_Orig == searchResult.done => TwoTier

\* the term has letters and spaces only
PlainTerm(t) == \A i \in 1..Len(t) : t[i] \in {"a", "b", "A", "B", " "}

\* the part of C22 that the code keeps: for a term of letters and spaces the
\* search is two-tier as claimed
C22_PlainTerms == (searchResult.done /\ PlainTerm(searchTerm)) => TwoTier

\* C23: two overlapping bulk sends of one hospital can both find the same
\* eligible donor un-reminded and both write a reminder: the create that
\* follows the cooldown check is not repeated against the store, so it appends
\* its record whatever the other call has written since the check.
C23_DoubleSend ==
    [][\A p \in Procs :
         (pc[p] = "send_create" /\ pc'[p] # "send_create")
         => notifs' = Append(notifs, NewNotification(loc[p].donors[loc[p].i],
                                                     req[p].hospital, "bulk", today))]_vars

\* two reminders of one (donor, hospital) pair less than 30 days apart, in a
\* store that bulk sends alone have written
C23_Witness ==
    /\ \A n \in 1..Len(notifs) : notifs[n].message = "bulk"
    /\ \E i, j \in 1..Len(notifs) :
         /\ i < j
         /\ notifs[i].donor_id = notifs[j].donor_id
         /\ notifs[i].hospital_id = notifs[j].hospital_id
         /\ notifs[i].type = "donation_reminder" /\ notifs[j].type = "donation_reminder"
         /\ notifs[j].sent_at - notifs[i].sent_at < ReminderCooldownDays

\* C24: every notification written by send_all_reminders or
\* send_single_reminder has status sent and a sent_at; in every reachable
\* state status sent implies that sent_at is set; the only status transition
\* ever taken is pending to sent; no record ever has status delivered or
\* failed.
C24_StatusMachine ==
    /\ [](\A n \in 1..Len(notifs) :
            /\ notifs[n].status = "sent" => notifs[n].sent_at # NoDate
            /\ notifs[n].status \notin {"delivered", "failed"})
    /\ [][/\ \A n \in 1..Len(notifs') :
               n > Len(notifs) => notifs'[n].status = "sent" /\ notifs'[n].sent_at = today
          /\ \A n \in 1..Len(notifs) :
               /\ n <= Len(notifs')
               /\ notifs'[n].status # notifs[n].status
                  => notifs[n].status = "pending" /\ notifs'[n].status = "sent"]_vars

\* the store holds a reminder of a bulk send and one of a single send
C24_Witness ==
    /\ \E n \in 1..Len(notifs) : notifs[n].message = "bulk" /\ notifs[n].status = "sent"
    /\ \E n \in 1..Len(notifs) : notifs[n].message = "single" /\ notifs[n].status = "sent"

(* ------------------------------ inventory under concurrency ------------ *)
\* C25: get_inventory has no error outcome under concurrency: when two
\* get_inventory calls of a hospital without records overlap, or a first
\* get_inventory overlaps an add_units or set_units of that hospital, every
\* call succeeds and the get_inventory that found no record returns 8.
C25_Orig ==
    \A p \in Procs :
        (pc[p] = "done" /\ req[p].op \in {"get", "add", "update"} /\ resp[p].status # 400)
        => /\ Ok(p)
           /\ (req[p].op = "get" /\ loc[p].i > 0) => Len(resp[p].inventory) = Len(bloodGroups)

(* ------------------------------ requests and admin routes -------------- *)
OnlyOwn == \A i \in 1..Len(call.requests) : call.requests[i].requesterId = call.caller

\* C26: for every authenticated user whose role is not admin (seeker,
\* hospital or donor), GET /api/requests returns only requests whose
\* requesterId is that user; only an admin sees requests of other users.
C26_Orig ==
    (call.route = "GET /api/requests" /\ users[call.caller].role # "admin") => OnlyOwn

\* the part of C26 that the code keeps: seekers and hospitals are shown their
\* own requests only
C26_SeekerHospital ==
    (call.route = "GET /api/requests" /\ users[call.caller].role \in {"seeker", "hospital"})
    => OnlyOwn

DashboardRoutes == {"GET /admin-dashboard", "POST /admin-dashboard"}
\* the tokens issued to the admin account
AdminTokens == {"token-a1"}
\* the caller of the last call proved to be an admin: through protect on the
\* GET route, through the token of the body on the POST route
ByAdmin ==
    \/ call.route = "GET /admin-dashboard" /\ users[call.caller].role = "admin"
    \/ call.route = "POST /admin-dashboard" /\ call.token \in AdminTokens

C27_GetRoute ==
    (call.route = "GET /admin-dashboard" /\ ~ByAdmin)
    => (call.status = 403 /\ call.data = NoCall.data)

(* ------------------------------ role restriction ----------------------- *)
\* C28: a request of an authenticated user whose role is not hospital, on
\* any inventory or reminder route, is answered 403 `Access denied' at once:
\* no step of a handler runs for it and the inventory and notification
\* records stay as they were (no lazy seeding for that user).
C28_RoleRestriction ==
    [][\A p \in Procs :
         (pc[p] = "idle" /\ pc'[p] # "idle" /\ users[req'[p].hospital].role # "hospital")
         => /\ pc'[p] = "done"
            /\ resp'[p] = Reply(403, "Access denied. Hospital staff only.")
            /\ inv' = inv
            /\ notifs' = notifs]_vars

C28_Witness ==
    \E p \in Procs :
        /\ pc[p] = "done"
        /\ req[p].op = "get"
        /\ users[req[p].hospital].role = "donor"
        /\ resp[p].status = 403
        /\ \A bg \in BloodGroupSet : inv[<<"h1", bg>>] # NoDoc

(* ------------------------------ single and bulk reminders --------------- *)
\* record n was written by a single send of hospital h to donor d, and today
\* is within 30 days of its sent_at
SingleWithinCooldown(n, h, d) ==
    /\ notifs[n].message = "single"
    /\ notifs[n].hospital_id = h
    /\ notifs[n].donor_id = d
    /\ today - notifs[n].sent_at <= ReminderCooldownDays

C30_Orig ==
    authState.user # null
    => (authState.token # null /\ authState.token = localStorage)

\* a late failing initAuth never removes the token of a login that succeeded
\* in the meantime
C30_LateInitAuth ==
    [][(initAuth.pc \in {"fetch", "json"} /\ initAuth'.pc = "done"
        /\ localStorage \in LoginTokens)
       => localStorage' = localStorage]_vars

====
